---- MODULE Spec2Model ----
(***************************************************************************)
(* A state-machine model of losspager/io/pagerdata.py: class PagerData,    *)
(* its five setters, validate() and its ten getters.                       *)
(*                                                                         *)
(* Python lists are modelled 1-based: list index i is sequence index i+1. *)
(* An instance attribute exists only once some method assigned it; the    *)
(* variable attrs is the set of attribute names the instance carries, and  *)
(* reading a name outside it is Python's AttributeError.                  *)
(***************************************************************************)
EXTENDS Integers, Sequences, FiniteSets, TLC

\* ------------------------------------------------------------ constants
MINEXP == 1000
EVENT_RADIUS == 400
SOFTWARE_VERSION == "2.0b"
\* number of intensity buckets: range(9,-1,-1) and range(1,11)
NMMI == 10

\* ------------------------------------------------------------ bounds
\* largest number of non-empty intensity buckets in a caller's exposure table
MaxExposed == 2

\* ------------------------------------------------------------ values
Labels == {"green", "yellow", "orange", "red"}

levels == [l \in Labels |->
             CASE l = "green" -> 0 [] l = "yellow" -> 1
               [] l = "orange" -> 2 [] l = "red" -> 3]

rlevels == [n \in 0..3 |->
              CASE n = 0 -> "green" [] n = 1 -> "yellow"
                [] n = 2 -> "orange" [] n = 3 -> "red"]

\* the characters (code points) of each label, for Python's str comparison
LabelChars == [l \in Labels |->
                 CASE l = "green"  -> <<103, 114, 101, 101, 110>>
                   [] l = "yellow" -> <<121, 101, 108, 108, 111, 119>>
                   [] l = "orange" -> <<111, 114, 97, 110, 103, 101>>
                   [] l = "red"    -> <<114, 101, 100>>]

\* Python's a > b on two strings: lexicographic on code points
RECURSIVE str_gt(_, _)
str_gt(a, b) ==
    IF a = <<>> THEN FALSE
    ELSE IF b = <<>> THEN TRUE
    ELSE IF Head(a) # Head(b) THEN Head(a) > Head(b)
    ELSE str_gt(Tail(a), Tail(b))

SectionOrder == <<"event_info", "pager", "shake_info", "alerts",
                  "population_exposure", "economic_exposure", "model_results",
                  "city_table", "historical_earthquakes", "comments">>

Sections == {SectionOrder[i] : i \in 1..Len(SectionOrder)}

\* the seven probability ranges, each as the two parts its label splits into
ProbRanges == << <<"0", "1">>, <<"1", "10">>, <<"10", "100">>,
                 <<"100", "1000">>, <<"1000", "10000">>,
                 <<"10000", "100000">>, <<"100000", "10000000">> >>

colors == <<"green", "yellow", "yellow", "orange", "red", "red", "red">>

\* ------------------------------------------------------------ caller inputs
Counts == {999, MINEXP, 1500}

ZeroTable == [i \in 1..NMMI |-> 0]

\* every 10-bucket table with at most MaxExposed non-empty buckets
BoundedExposures ==
    UNION { { [i \in 1..NMMI |-> IF i \in S THEN g[i] ELSE 0] : g \in [S -> Counts] }
            : S \in {T \in SUBSET (1..NMMI) : Cardinality(T) <= MaxExposed} }

\* the table of the end-to-end scenario: 1200 people in bucket 9
ScenarioTable == [i \in 1..NMMI |-> IF i = 9 THEN 1200 ELSE 0]

\* the tables of the lifecycle specification: the two examples of the
\* documentation and one without any bucket of MINEXP people
SampleExposures ==
    { [i \in 1..NMMI |-> IF i = 9 THEN 999 ELSE IF i = 10 THEN 1500 ELSE 0],
      ScenarioTable,
      [i \in 1..NMMI |-> IF i = 1 THEN 500 ELSE 0] }

\* the label pairs <<fatality, economic>> of the lifecycle specification
SamplePairs == { <<"green", "orange">>, <<"yellow", "red">>,
                 <<"orange", "orange">>, <<"red", "yellow">> }

EconTable == [i \in 1..NMMI |-> IF i = 9 THEN 70000 ELSE 0]

Grid == [event_id |-> "us2000abcd", lat |-> 10, lon |-> 120,
         shakemap_version |-> 1]

NoGrid == [event_id |-> "", lat |-> 0, lon |-> 0, shakemap_version |-> 0]

CommentSet == [impact1 |-> "primary", impact2 |-> "secondary",
               struct_comment |-> "struct", historical_comment |-> "hist",
               secondary_comment |-> "hazard"]

NoComments == [impact1 |-> "", impact2 |-> "", struct_comment |-> "",
               historical_comment |-> "", secondary_comment |-> ""]

\* ------------------------------------------------------------ state
VARIABLES
    pagerdict,      \* self._pagerdict: section name -> section
    input_set, exposure_set, models_set, comments_set,
    attrs,          \* names of the instance attributes assigned so far
    shakegrid,      \* self._shakegrid / _event_dict / _shake_dict
    exposure,       \* self._exposure['TotalExposure']
    econ_exposure,  \* self._econ_exposure['TotalEconomicExposure']
    maxmmi,         \* self._maxmmi
    nmmi,           \* self._nmmi
    fatlevel,       \* what self._fatmodel.getAlertLevel(self._fatmodel_results) yields
    ecolevel,       \* what self._ecomodel.getAlertLevel(self._ecomodel_results) yields
    comments,       \* the five comment strings
    call,           \* the last method called, with its exposure argument
    error,          \* the exception that call raised, or NoError
    ret             \* the value that call returned

vars == <<pagerdict, input_set, exposure_set, models_set, comments_set, attrs,
          shakegrid, exposure, econ_exposure, maxmmi, nmmi, fatlevel, ecolevel,
          comments, call, error, ret>>

flags == <<input_set, exposure_set, models_set, comments_set>>

fields == <<attrs, shakegrid, exposure, econ_exposure, maxmmi, nmmi, fatlevel,
            ecolevel, comments>>

NoError == [exc |-> "none", where |-> "", msg |-> ""]

None == "None"

Raise(exc, where, msg) == [exc |-> exc, where |-> where, msg |-> msg]

\* The module neither defines nor imports the name PagerException, so the
\* statement raise PagerException(...) fails looking the name up.
PagerException == "NameError"

EmptyDict == [k \in {} |-> None]

Init ==
    /\ pagerdict = EmptyDict
    /\ input_set = FALSE
    /\ exposure_set = FALSE
    /\ models_set = FALSE
    /\ comments_set = FALSE
    /\ attrs = {}
    /\ shakegrid = NoGrid
    /\ exposure = ZeroTable
    /\ econ_exposure = ZeroTable
    /\ maxmmi = 0
    /\ nmmi = 0
    /\ fatlevel = "green"
    /\ ecolevel = "green"
    /\ comments = NoComments
    /\ call = [op |-> "__init__", arg |-> <<>>]
    /\ error = NoError
    /\ ret = None

\* ------------------------------------------------------------ helpers
\* _get_maxmmi's loop: i runs over list indices 9..0, exp holds the last
\* bucket read; maxmmi is bound only by the branch that breaks.
RECURSIVE scan_maxmmi(_, _, _)
scan_maxmmi(total, i, exp) ==
    IF i < 0 THEN [bound |-> FALSE, maxmmi |-> 0, exp |-> exp]
    ELSE LET e == total[i + 1]
         IN  IF e >= MINEXP THEN [bound |-> TRUE, maxmmi |-> i + 1, exp |-> e]
             ELSE scan_maxmmi(total, i - 1, e)

\* a variant that scans the buckets from the lowest up
RECURSIVE scan_maxmmi_up(_, _, _)
scan_maxmmi_up(total, i, exp) ==
    IF i > NMMI - 1 THEN [bound |-> FALSE, maxmmi |-> 0, exp |-> exp]
    ELSE LET e == total[i + 1]
         IN  IF e >= MINEXP THEN [bound |-> TRUE, maxmmi |-> i + 1, exp |-> e]
             ELSE scan_maxmmi_up(total, i + 1, e)

get_maxmmi_lowest(total) == scan_maxmmi_up(total, 0, 0)

\* _get_maxmmi(exposure): bound = FALSE is the UnboundLocalError that
\* return (maxmmi,exp) raises when no bucket held MINEXP people
get_maxmmi(total) == scan_maxmmi(total, NMMI - 1, 0)

\* a variant that keeps the less severe of the two levels
alert_level_min(fat, eco) ==
    rlevels[IF levels[fat] <= levels[eco] THEN levels[fat] ELSE levels[eco]]

\* pager['alert_level'] = rlevels[max(levels[fatlevel],levels[ecolevel])]
alert_level(fat, eco) ==
    rlevels[IF levels[fat] >= levels[eco] THEN levels[fat] ELSE levels[eco]]

\* is_fat_summary: the two labels, mapped to numbers and back, compared as strings
is_fat_summary(fat, eco) ==
    str_gt(LabelChars[rlevels[levels[fat]]], LabelChars[rlevels[levels[eco]]])

\* the bins built from getProbabilities(): colour, and the two parts of the
\* range label as prange.split('-') returns them (strings)
Bins == [i \in 1..Len(ProbRanges) |->
           [color |-> colors[i], min |-> ProbRanges[i][1], max |-> ProbRanges[i][2]]]

\* ------------------------------------------------------------ sections
\* the attributes each section's builder reads
SectionNeeds(k) ==
    CASE k = "event_info" -> {"_event_dict", "_pagerversion"}
      [] k = "pager" -> {"_pagerversion", "_event_dict", "_eventcode", "_fatmodel",
                         "_fatmodel_results", "_ecomodel", "_ecomodel_results",
                         "_exposure"}
      [] k = "shake_info" -> {"_shake_dict"}
      [] k = "alerts" -> {"_fatmodel", "_fatmodel_results", "_ecomodel",
                          "_ecomodel_results"}
      [] k = "population_exposure" -> {"_exposure"}
      [] k = "economic_exposure" -> {"_econ_exposure"}
      [] k = "model_results" -> {"_fatmodel", "_fatmodel_results", "_ecomodel",
                                 "_ecomodel_results", "_semi_loss", "_res_fat",
                                 "_non_res_fat"}
      [] k = "city_table" -> {"_city_file", "_shakegrid", "_map_cities"}
      \* (_getHistoricalEarthquakes also reads _nmmi, which _setPager has
      \* assigned earlier in the same validate call)
      [] k = "historical_earthquakes" -> {"_event_dict", "_fatmodel_results"}
      [] k = "comments" -> {"_impact1", "_impact2", "_struct_comment",
                            "_hist_comment", "_secondary_comment"}

SectionBuilder(k) ==
    CASE k = "event_info" -> "_setEvent"
      [] k = "pager" -> "_setPager"
      [] k = "shake_info" -> "_setShakeInfo"
      [] k = "alerts" -> "_setAlerts"
      [] k = "population_exposure" -> "_setPopulationExposure"
      [] k = "economic_exposure" -> "_setEconomicExposure"
      [] k = "model_results" -> "_setModelResults"
      [] k = "city_table" -> "_getCityTable"
      [] k = "historical_earthquakes" -> "_getHistoricalEarthquakes"
      [] k = "comments" -> "_getComments"

setEvent ==
    [eventid |-> shakegrid.event_id, lat |-> shakegrid.lat, lon |-> shakegrid.lon]

\* (the processing time, the elapsed-time string and the local-time string
\* come from the clock and the time collaborators: one token stands for them)
setPager ==
    [software_version |-> SOFTWARE_VERSION,
     versioncode |-> shakegrid.event_id,
     alert_level |-> alert_level(fatlevel, ecolevel),
     maxmmi |-> get_maxmmi(exposure).maxmmi,
     elapsed_time |-> "elapsed"]

setShakeInfo == [shake_version |-> shakegrid.shakemap_version]

setAlerts ==
    [fatality |-> [type |-> "fatality", units |-> "fatalities",
                   summary |-> is_fat_summary(fatlevel, ecolevel),
                   level |-> fatlevel, bins |-> Bins],
     economic |-> [type |-> "economic", units |-> "USD",
                   summary |-> ~is_fat_summary(fatlevel, ecolevel),
                   level |-> ecolevel, bins |-> Bins]]

setPopulationExposure ==
    [mmi |-> [i \in 1..NMMI |-> i], aggregated_exposure |-> exposure]

setEconomicExposure ==
    [mmi |-> [i \in 1..NMMI |-> i], aggregated_exposure |-> econ_exposure]

\* the totals and rates come from the loss models; the section keeps its
\* three keys
setModelResults_section ==
    {"empirical_fatality", "empirical_economic", "semi_empirical_fatalities"}

\* what the city collaborator is handed
getCityTable_section == [grid |-> shakegrid.event_id]

\* what the catalogue collaborator is handed: epicentre, radius, and the
\* pager section's maxmmi with the _nmmi that _setPager stored
getHistoricalEarthquakes_section ==
    [lat |-> shakegrid.lat, lon |-> shakegrid.lon, radius |-> EVENT_RADIUS,
     maxmmi |-> get_maxmmi(exposure).maxmmi, nmmi |-> get_maxmmi(exposure).exp]

getComments_section == comments

NewSection(k) ==
    CASE k = "event_info" -> setEvent
      [] k = "pager" -> setPager
      [] k = "shake_info" -> setShakeInfo
      [] k = "alerts" -> setAlerts
      [] k = "population_exposure" -> setPopulationExposure
      [] k = "economic_exposure" -> setEconomicExposure
      [] k = "model_results" -> setModelResults_section
      [] k = "city_table" -> getCityTable_section
      [] k = "historical_earthquakes" -> getHistoricalEarthquakes_section
      [] k = "comments" -> getComments_section

\* ------------------------------------------------------------ setters
setInputs ==
    /\ shakegrid' = Grid
    /\ attrs' = attrs \cup {"_event_dict", "_shake_dict", "_shakegrid",
                            "_pagerversion", "_eventcode"}
    /\ input_set' = TRUE
    /\ call' = [op |-> "setInputs", arg |-> <<>>]
    /\ error' = NoError
    /\ ret' = None
    /\ UNCHANGED <<pagerdict, exposure_set, models_set, comments_set, exposure,
                   econ_exposure, maxmmi, nmmi, fatlevel, ecolevel, comments>>

\* a variant that also rewrites the population section of a finished report
setExposure_refresh(exp, econ) ==
    LET r == get_maxmmi(exp)
    IN  /\ call' = [op |-> "setExposure", arg |-> exp]
        /\ ret' = None
        /\ IF r.bound
           THEN /\ maxmmi' = r.exp
                /\ exposure' = exp
                /\ econ_exposure' = econ
                /\ exposure_set' = TRUE
                /\ attrs' = attrs \cup {"_maxmmi", "_exposure", "_econ_exposure"}
                /\ error' = NoError
                /\ pagerdict' =
                     IF "population_exposure" \in DOMAIN pagerdict
                     THEN [pagerdict EXCEPT !["population_exposure"].aggregated_exposure = exp]
                     ELSE pagerdict
           ELSE /\ error' = Raise("UnboundLocalError", "_get_maxmmi", "maxmmi")
                /\ UNCHANGED <<maxmmi, exposure, econ_exposure, exposure_set, attrs,
                               pagerdict>>
        /\ UNCHANGED <<input_set, models_set, comments_set, shakegrid,
                       nmmi, fatlevel, ecolevel, comments>>

\* nmmi,self._maxmmi = self._get_maxmmi(exposure): the pair returned is
\* (maxmmi,exp), so the attribute _maxmmi receives its second component.
\* When _get_maxmmi raises, nothing has been assigned yet.
setExposure(exp, econ) ==
    LET r == get_maxmmi(exp)
    IN  /\ call' = [op |-> "setExposure", arg |-> exp]
        /\ ret' = None
        /\ IF r.bound
           THEN /\ maxmmi' = r.exp
                /\ exposure' = exp
                /\ econ_exposure' = econ
                /\ exposure_set' = TRUE
                /\ attrs' = attrs \cup {"_maxmmi", "_exposure", "_econ_exposure"}
                /\ error' = NoError
           ELSE /\ error' = Raise("UnboundLocalError", "_get_maxmmi", "maxmmi")
                /\ UNCHANGED <<maxmmi, exposure, econ_exposure, exposure_set, attrs>>
        /\ UNCHANGED <<pagerdict, input_set, models_set, comments_set, shakegrid,
                       nmmi, fatlevel, ecolevel, comments>>

setComments ==
    /\ comments' = CommentSet
    /\ attrs' = attrs \cup {"_impact1", "_impact2", "_struct_comment",
                            "_hist_comment", "_secondary_comment"}
    /\ comments_set' = TRUE
    /\ call' = [op |-> "setComments", arg |-> <<>>]
    /\ error' = NoError
    /\ ret' = None
    /\ UNCHANGED <<pagerdict, input_set, exposure_set, models_set, shakegrid,
                   exposure, econ_exposure, maxmmi, nmmi, fatlevel, ecolevel>>

setModelResults(fat, eco) ==
    /\ fatlevel' = fat
    /\ ecolevel' = eco
    /\ attrs' = attrs \cup {"_fatmodel", "_ecomodel", "_fatmodel_results",
                            "_ecomodel_results", "_semi_loss", "_res_fat",
                            "_non_res_fat"}
    /\ models_set' = TRUE
    /\ call' = [op |-> "setModelResults", arg |-> <<>>]
    /\ error' = NoError
    /\ ret' = None
    /\ UNCHANGED <<pagerdict, input_set, exposure_set, comments_set, shakegrid,
                   exposure, econ_exposure, maxmmi, nmmi, comments>>

setMapInfo ==
    /\ attrs' = attrs \cup {"_city_file", "_map_cities"}
    /\ call' = [op |-> "setMapInfo", arg |-> <<>>]
    /\ error' = NoError
    /\ ret' = None
    /\ UNCHANGED <<pagerdict, flags, shakegrid, exposure, econ_exposure, maxmmi,
                   nmmi, fatlevel, ecolevel, comments>>

\* ------------------------------------------------------------ validate
\* a variant whose check of the comments flag is missing
MissingGroup_nocomments ==
    IF ~input_set THEN "You must call setInputs() first."
    ELSE IF ~exposure_set THEN "You must call setExposure() first."
    ELSE IF ~models_set THEN "You must call setExposure() first."
    ELSE ""

\* the four presence checks of validate, in the order the code makes them,
\* each with the message of its raise statement; "" when all pass
MissingGroup ==
    IF ~input_set THEN "You must call setInputs() first."
    ELSE IF ~exposure_set THEN "You must call setExposure() first."
    ELSE IF ~models_set THEN "You must call setExposure() first."
    ELSE IF ~comments_set THEN "You must call setComments() first."
    ELSE ""

\* the file-reading collaborators that may fail during validate:
\* Cities.loadFromGeoNames in _getCityTable, ExpoCat in _getHistoricalEarthquakes
IOFailures == {"none", "city_table", "historical_earthquakes"}

\* the exception building section k raises, or NoError
SectionError(k, io) ==
    IF ~(SectionNeeds(k) \subseteq attrs)
    THEN Raise("AttributeError", SectionBuilder(k), "")
    ELSE IF k = "pager" /\ ~get_maxmmi(exposure).bound
    THEN Raise("UnboundLocalError", "_get_maxmmi", "maxmmi")
    ELSE IF k = io
    THEN Raise("CollaboratorError", SectionBuilder(k), "")
    ELSE NoError

\* index of the first section whose builder raises; Len+1 when none does
FailAt(io) ==
    LET bad == {i \in 1..Len(SectionOrder) : SectionError(SectionOrder[i], io) # NoError}
    IN  IF bad = {} THEN Len(SectionOrder) + 1
        ELSE CHOOSE i \in bad : \A j \in bad : i <= j

validate(io) ==
    /\ call' = [op |-> "validate", arg |-> <<>>]
    /\ ret' = None
    /\ IF MissingGroup # ""
       THEN /\ error' = Raise(PagerException, "validate", MissingGroup)
            /\ UNCHANGED <<pagerdict, nmmi, attrs>>
       ELSE LET n == FailAt(io)
                done == {SectionOrder[i] : i \in 1..(n - 1)}
            IN  /\ pagerdict' = [k \in (DOMAIN pagerdict) \cup done |->
                                   IF k \in done THEN NewSection(k) ELSE pagerdict[k]]
                /\ error' = IF n > Len(SectionOrder) THEN NoError
                            ELSE SectionError(SectionOrder[n], io)
                /\ IF "pager" \in done
                   THEN /\ nmmi' = get_maxmmi(exposure).exp
                        /\ attrs' = attrs \cup {"_nmmi"}
                   ELSE UNCHANGED <<nmmi, attrs>>
    /\ UNCHANGED <<flags, shakegrid, exposure, econ_exposure, maxmmi, fatlevel,
                   ecolevel, comments>>

\* ------------------------------------------------------------ getters
Getters == {"getEventInfo", "getImpactComments", "getSoftwareVersion",
            "getElapsed", "getTotalExposure", "getHistoricalTable",
            "getStructureComment", "getHistoricalComment", "getCityTable",
            "getSummaryAlert"}

\* the section each getter looks up in self._pagerdict
GetterSection(g) ==
    CASE g = "getEventInfo" -> "event_info"
      [] g = "getImpactComments" -> "comments"
      [] g = "getSoftwareVersion" -> "pager"
      [] g = "getElapsed" -> "pager"
      [] g = "getTotalExposure" -> "population_exposure"
      [] g = "getHistoricalTable" -> "historical_earthquakes"
      [] g = "getStructureComment" -> "comments"
      [] g = "getHistoricalComment" -> "comments"
      [] g = "getCityTable" -> "city_table"
      [] g = "getSummaryAlert" -> "pager"

\* what the getter returns from a dictionary d that has its section
GetterValue(g, d) ==
    CASE g = "getEventInfo" -> d["event_info"]
      [] g = "getImpactComments" -> <<d["comments"].impact1, d["comments"].impact2>>
      [] g = "getSoftwareVersion" -> d["pager"].software_version
      [] g = "getElapsed" -> d["pager"].elapsed_time
      [] g = "getTotalExposure" -> d["population_exposure"].aggregated_exposure
      [] g = "getHistoricalTable" -> d["historical_earthquakes"]
      [] g = "getStructureComment" -> d["comments"].struct_comment
      [] g = "getHistoricalComment" -> d["comments"].historical_comment
      [] g = "getCityTable" -> d["city_table"]
      [] g = "getSummaryAlert" -> d["pager"].alert_level

\* a variant that answers None for a section that is not there, as
\* dict.get() would
Getter_default(g) ==
    /\ call' = [op |-> g, arg |-> <<>>]
    /\ error' = NoError
    /\ ret' = IF GetterSection(g) \in DOMAIN pagerdict
              THEN GetterValue(g, pagerdict) ELSE None
    /\ UNCHANGED <<pagerdict, flags, fields>>

\* self._pagerdict[section]...: a KeyError when the section is not there
Getter(g) ==
    /\ call' = [op |-> g, arg |-> <<>>]
    /\ IF GetterSection(g) \in DOMAIN pagerdict
       THEN /\ error' = NoError
            /\ ret' = GetterValue(g, pagerdict)
       ELSE /\ error' = Raise("KeyError", g, GetterSection(g))
            /\ ret' = None
    /\ UNCHANGED <<pagerdict, flags, fields>>

\* ------------------------------------------------------------ specifications
\* The lifecycle: every method, called in any order, on sample inputs.
callSetExposure == \E e \in SampleExposures : setExposure(e, EconTable)

callSetModelResults == \E p \in SamplePairs : setModelResults(p[1], p[2])

callValidate == \E io \in IOFailures : validate(io)

callGetter == \E g \in Getters : Getter(g)

Next ==
    \/ setInputs
    \/ callSetExposure
    \/ setComments
    \/ callSetModelResults
    \/ setMapInfo
    \/ callValidate
    \/ callGetter

Spec == Init /\ [][Next]_vars

\* The alert levels: the loss models may yield any of the 16 label pairs.
callSetScenarioExposure == setExposure(ScenarioTable, EconTable)

callSetAnyModelResults == \E f \in Labels, e \in Labels : setModelResults(f, e)

callGetSummaryAlert == Getter("getSummaryAlert")

NextAlerts ==
    \/ setInputs
    \/ callSetScenarioExposure
    \/ setComments
    \/ callSetAnyModelResults
    \/ setMapInfo
    \/ callValidate
    \/ callGetSummaryAlert

SpecAlerts == Init /\ [][NextAlerts]_vars

\* The exposure tables: the caller hands over one table, any of the bounded
\* ones, and validates.
callSetBoundedExposure ==
    /\ ~exposure_set
    /\ \E e \in BoundedExposures : setExposure(e, EconTable)

callSetScenarioModelResults == setModelResults("green", "orange")

NextExposure ==
    \/ setInputs
    \/ callSetBoundedExposure
    \/ setComments
    \/ callSetScenarioModelResults
    \/ setMapInfo
    \/ callValidate

SpecExposure == Init /\ [][NextExposure]_vars

\* ------------------------------------------------------------ claims
AllSet == input_set /\ exposure_set /\ models_set /\ comments_set

Significant(total) == \E i \in 1..NMMI : total[i] >= MINEXP

\* C1: in the alerts section validate builds, exactly one of the two groups
\* is marked summary; the economic group is the summary exactly when the
\* fatality level is strictly less severe than the economic level (a tie goes
\* to fatality); so the summary group's level is the combined alert level.
C1_SummaryFollowsSeverity ==
    (call.op = "validate" /\ "alerts" \in DOMAIN pagerdict) =>
        LET a == pagerdict["alerts"]
        IN  /\ a.fatality.summary # a.economic.summary
            /\ a.economic.summary <=> (levels[a.fatality.level] < levels[a.economic.level])
            /\ a.fatality.summary => a.fatality.level = pagerdict["pager"].alert_level
            /\ a.economic.summary => a.economic.level = pagerdict["pager"].alert_level

\* C2: after a validate call that succeeded, the level getSummaryAlert
\* returns is one of the two models' labels and at least as severe as both;
\* and getSummaryAlert returns the pager section's alert_level.
C2_SummaryAlertIsMax ==
    /\ (call.op = "validate" /\ error = NoError) =>
          LET a == GetterValue("getSummaryAlert", pagerdict)
          IN  /\ a \in {fatlevel, ecolevel}
              /\ levels[a] >= levels[fatlevel]
              /\ levels[a] >= levels[ecolevel]
    /\ (call.op = "getSummaryAlert" /\ error = NoError) =>
          ret = pagerdict["pager"].alert_level

C2_Witness ==
    /\ call.op = "validate"
    /\ error = NoError
    /\ fatlevel = "yellow"
    /\ ecolevel = "red"
    /\ pagerdict["pager"].alert_level = "red"

\* the setter the documentation's check order names first among the missing
\* groups: inputs, exposure, comments, model results
FirstMissingDocumented ==
    IF ~input_set THEN "You must call setInputs() first."
    ELSE IF ~exposure_set THEN "You must call setExposure() first."
    ELSE IF ~comments_set THEN "You must call setComments() first."
    ELSE "You must call setModelResults() first."

\* C3: validate called with a mandatory group missing fails with an error
\* naming the first missing group in the order inputs, exposure, comments,
\* model results.
C3_NamesFirstMissing ==
    (call.op = "validate" /\ ~AllSet) =>
        /\ error # NoError
        /\ error.msg = FirstMissingDocumented

C5_MaxmmiIsHighest ==
    /\ (call.op = "setExposure" /\ Significant(call.arg)) =>
          (error = NoError /\ exposure = call.arg)
    /\ (call.op = "validate" /\ "pager" \in DOMAIN pagerdict) =>
          LET m == pagerdict["pager"].maxmmi
          IN  /\ m \in 1..NMMI
              /\ exposure[m] >= MINEXP
              /\ \A j \in (m + 1)..NMMI : exposure[j] < MINEXP
              /\ nmmi = exposure[m]

C5_Witness ==
    /\ call.op = "validate"
    /\ "pager" \in DOMAIN pagerdict
    /\ exposure[4] = 1000
    /\ exposure[9] = 1500
    /\ pagerdict["pager"].maxmmi = 9
    /\ nmmi = 1500

\* C6: for a table in which no bucket reaches MINEXP, the computation
\* completes without error and yields index 1 with the count of bucket 1.
C6_FallsThroughToLowest ==
    (call.op = "setExposure" /\ ~Significant(call.arg)) =>
        /\ error = NoError
        /\ get_maxmmi(call.arg) = [bound |-> TRUE, maxmmi |-> 1, exp |-> call.arg[1]]

\* C7: with the four mandatory groups set and setMapInfo never called,
\* validate fails for no missing input and builds all ten sections (a
\* failure of a file-reading collaborator aside).
C7_MapInfoOptional ==
    (call.op = "validate" /\ AllSet /\ "_city_file" \notin attrs) =>
        \/ error.exc = "CollaboratorError"
        \/ (error = NoError /\ DOMAIN pagerdict = Sections)

\* C8 as stated: once all ten sections are built, nothing changes them.
C8_ReportImmutable ==
    [][DOMAIN pagerdict = Sections => pagerdict' = pagerdict]_vars

\* C8 as amended: once all ten sections are built, no call other than a
\* further validate (no setter, no getter) changes any of them.
C8_OnlyValidateRewrites ==
    [][(DOMAIN pagerdict = Sections /\ call'.op # "validate")
          => pagerdict' = pagerdict]_vars

C8_Witness ==
    /\ DOMAIN pagerdict = Sections
    /\ call.op = "setExposure"
    /\ error = NoError
    /\ pagerdict["population_exposure"].aggregated_exposure # exposure

\* the sections that precede the one whose builder raised
BuiltBefore(err) ==
    LET where == IF err.where = "_get_maxmmi" THEN "_setPager" ELSE err.where
        n == CHOOSE i \in 1..Len(SectionOrder) : SectionBuilder(SectionOrder[i]) = where
    IN  {SectionOrder[i] : i \in 1..(n - 1)}

\* C10 as stated: a validate call that fails on an instance with no section
\* built leaves it with no section built (taken on instances on which
\* setMapInfo was called, where the failures are a missing mandatory group
\* or a collaborator's).
C10_AllOrNothing ==
    [][(call'.op = "validate" /\ error' # NoError /\ pagerdict = EmptyDict
          /\ "_city_file" \in attrs)
          => pagerdict' = EmptyDict]_vars

\* C10 as amended: a validate call that fails on an instance with no section
\* built leaves no section built when a mandatory group is missing, and
\* otherwise leaves built exactly the sections that precede the failing one.
C10_FailureKeepsPrefix ==
    [][(call'.op = "validate" /\ error' # NoError /\ pagerdict = EmptyDict)
          => IF ~AllSet THEN pagerdict' = EmptyDict
             ELSE DOMAIN pagerdict' = BuiltBefore(error')]_vars

C10_Witness ==
    /\ call.op = "validate"
    /\ error.exc = "CollaboratorError"
    /\ error.where = "_getHistoricalEarthquakes"
    /\ DOMAIN pagerdict = Sections \ {"historical_earthquakes", "comments"}

\* C9: the _maxmmi attribute setExposure caches is a bucket index in 1..10
\* and equals the maxmmi validate derives from the same table.
C9_CachedMaxmmiIsIndex ==
    exposure_set =>
        /\ maxmmi \in 1..NMMI
        /\ "pager" \in DOMAIN pagerdict => maxmmi = pagerdict["pager"].maxmmi

====
